---------------------------- MODULE Spec2Model ----------------------------
(***************************************************************************)
(* State-machine model of kiota_http.httpx_request_adapter                 *)
(* (HttpxRequestAdapter): the five send variants, the CAE retry            *)
(* (get_http_response_message / retry_cae_response_if_required), failure   *)
(* resolution (throw_failed_responses), content resolution                 *)
(* (get_root_parse_node, _should_return_none), convert_to_native_async and *)
(* the tracing spans the adapter starts and ends.                          *)
(*                                                                         *)
(* Python strings the adapter computes on (header values, claims) are      *)
(* sequences of one-character strings, so that str.casefold, str.lower,    *)
(* str.startswith, str.split and re.search are modelled by what they do.   *)
(* The collaborators (authentication provider, http client, parse node     *)
(* factory, parse nodes, response handler) are nondeterministic choices    *)
(* over the outcomes their interfaces allow.                               *)
(*                                                                         *)
(* Spec follows one call at a time; ConcurrentSpec follows two calls on    *)
(* one adapter, whose coroutines the event loop runs in turn.              *)
(***************************************************************************)
EXTENDS Integers, Sequences, FiniteSets, TLC

(***************************************************************************)
(* Bound of the model: dispatches (http_client.send calls) one send call   *)
(* may perform before the model stops following it.                        *)
(***************************************************************************)
MaxDispatch == 3

---------------------------------------------------------------------------
(* Python string operations, on sequences of characters *)

UpperLetters ==
    <<"A", "B", "C", "D", "E", "F", "G", "H", "I", "J", "K", "L", "M",
      "N", "O", "P", "Q", "R", "S", "T", "U", "V", "W", "X", "Y", "Z">>

LowerLetters ==
    <<"a", "b", "c", "d", "e", "f", "g", "h", "i", "j", "k", "l", "m",
      "n", "o", "p", "q", "r", "s", "t", "u", "v", "w", "x", "y", "z">>

\* str.lower / str.casefold of one (ASCII) character
LowerChar(c) ==
    IF \E i \in 1..Len(UpperLetters) : UpperLetters[i] = c
    THEN LowerLetters[CHOOSE i \in 1..Len(UpperLetters) : UpperLetters[i] = c]
    ELSE c

\* str.casefold(), str.lower()
RECURSIVE Casefold(_)
Casefold(s) ==
    IF s = <<>> THEN <<>> ELSE <<LowerChar(Head(s))>> \o Casefold(Tail(s))

\* p occurs in s at position i
OccursAt(s, p, i) ==
    /\ i >= 1
    /\ i + Len(p) - 1 <= Len(s)
    /\ SubSeq(s, i, i + Len(p) - 1) = p

\* str.startswith(p)
StartsWith(s, p) == OccursAt(s, p, 1)

\* str.find(p): the first position of p in s, 0 when there is none
Find(s, p) ==
    IF \E i \in 1..Len(s) : OccursAt(s, p, i)
    THEN CHOOSE i \in 1..Len(s) :
            /\ OccursAt(s, p, i)
            /\ \A k \in 1..(i - 1) : ~OccursAt(s, p, k)
    ELSE 0

\* str.split(sep): the pieces of s between the occurrences of sep, left to right
RECURSIVE Split(_, _)
Split(s, sep) ==
    LET i == Find(s, sep)
    IN  IF i = 0
        THEN <<s>>
        ELSE <<SubSeq(s, 1, i - 1)>> \o Split(SubSeq(s, i + Len(sep), Len(s)), sep)

---------------------------------------------------------------------------
(* Class constants and the regular expression of the claims challenge *)

CLAIMS_KEY == "claims"

BEARER_AUTHENTICATION_SCHEME ==
    <<"B", "e", "a", "r", "e", "r">>

RESPONSE_AUTH_HEADER == "WWW-Authenticate"

CONTENT_TYPE_HEADER == "content-type"

\* the literal prefix  claims="  of the pattern  claims="(.+)"
ClaimsPatternPrefix ==
    <<"c", "l", "a", "i", "m", "s", "=", "\"">>

Quote == "\""

Newline == "\n"

\* the separator  ="  of  claims_match.group().split('="')
SplitSeparator ==
    <<"=", "\"">>

\* the least and the greatest element of a non-empty set of numbers
Min(S) == CHOOSE a \in S : \A b \in S : a <= b

Max(S) == CHOOSE a \in S : \A b \in S : a >= b

\* Ends of the matches of  claims="(.+)"  that start at i: the prefix, then one or
\* more characters other than a newline, then a quote.
MatchEnds(s, i) ==
    LET from == i + Len(ClaimsPatternPrefix)
        newlines == { k \in from..Len(s) : s[k] = Newline }
        stop == IF newlines = {} THEN Len(s) ELSE Min(newlines)
    IN  { j \in (from + 1)..stop : s[j] = Quote }

MatchStarts(s) ==
    { i \in 1..Len(s) : OccursAt(s, ClaimsPatternPrefix, i) /\ MatchEnds(s, i) # {} }

\* re.search('claims="(.+)"', s) is not None
ReSearchMatches(s) == MatchStarts(s) # {}

\* re.search('claims="(.+)"', s).group(): the leftmost match, (.+) greedy
ReSearchGroup(s) ==
    LET starts == MatchStarts(s)
        i == Min(starts)
        ends == MatchEnds(s, i)
    IN  SubSeq(s, i, Max(ends))

\* claims_match.group().split('="')[1]
ResponseClaims(auth_header_value) ==
    Split(ReSearchGroup(auth_header_value), SplitSeparator)[2]

---------------------------------------------------------------------------
(* Values the model draws its inputs from *)

\* WWW-Authenticate: Bearer realm="x", claims="eyAiY2xhaW1zIjogIngiIH0="
HdrExample ==
    <<"B", "e", "a", "r", "e", "r", " ", "r", "e", "a", "l", "m", "=", "\"", "x", "\"", ",", " ",
      "c", "l", "a", "i", "m", "s", "=", "\"",
      "e", "y", "A", "i", "Y", "2", "x", "h", "a", "W", "1", "z", "I", "j", "o", "g",
      "I", "n", "g", "i", "I", "H", "0", "=", "\"">>

\* eyAiY2xhaW1zIjogIngiIH0=
ExampleClaims ==
    <<"e", "y", "A", "i", "Y", "2", "x", "h", "a", "W", "1", "z", "I", "j", "o", "g",
      "I", "n", "g", "i", "I", "H", "0", "=">>

\* Bearer claims="abc"
HdrPlain ==
    <<"B", "e", "a", "r", "e", "r", " ", "c", "l", "a", "i", "m", "s", "=", "\"", "a", "b", "c", "\"">>

\* Bearer realm="x"
HdrNoClaims ==
    <<"B", "e", "a", "r", "e", "r", " ", "r", "e", "a", "l", "m", "=", "\"", "x", "\"">>

\* Basic realm="x"
HdrBasic ==
    <<"B", "a", "s", "i", "c", " ", "r", "e", "a", "l", "m", "=", "\"", "x", "\"">>

\* bearer claims="="
HdrEmptyClaims ==
    <<"b", "e", "a", "r", "e", "r", " ", "c", "l", "a", "i", "m", "s", "=", "\"", "=", "\"">>

AuthHeaderValues ==
    {HdrExample, HdrPlain, HdrNoClaims, HdrBasic, HdrEmptyClaims}

\* Application/JSON; odata.metadata=minimal
CtJson ==
    <<"A", "p", "p", "l", "i", "c", "a", "t", "i", "o", "n", "/", "J", "S", "O", "N", ";", " ",
      "o", "d", "a", "t", "a", ".", "m", "e", "t", "a", "d", "a", "t", "a", "=",
      "m", "i", "n", "i", "m", "a", "l">>

ContentTypeValues == {CtJson}

\* text/plain
CtText ==
    <<"t", "e", "x", "t", "/", "p", "l", "a", "i", "n">>

\* an optional value: <<>> is "no such header", <<v>> is the header with value v
Optional(S) == {<<>>} \cup {<<v>> : v \in S}

\* httpx.Headers: a mapping from the names of the headers present to their values
MkHeaders(auth, ct) ==
    [n \in (IF auth = <<>> THEN {} ELSE {RESPONSE_AUTH_HEADER})
           \cup (IF ct = <<>> THEN {} ELSE {CONTENT_TYPE_HEADER})
       |-> IF n = RESPONSE_AUTH_HEADER THEN auth[1] ELSE ct[1]]

EmptyHeaders == MkHeaders(<<>>, <<>>)

\* httpx.Response: status_code, headers, content
MkResponse(status, auth, ct, body) ==
    [status_code |-> status, headers |-> MkHeaders(auth, ct), content |-> body]

NoResponse == MkResponse(0, <<>>, <<>>, <<>>)

Bodies == {<<>>, <<"{", "}">>}

\* Responses of the http client: 200 and 204 with and without a content type and
\* a body; failures with and without a content type; a 401 with each
\* WWW-Authenticate value, a 403 with a claims challenge, and a 200 whose body
\* is plain text
Responses ==
    {MkResponse(s, <<>>, c, b) :
        s \in {200, 204}, c \in Optional(ContentTypeValues), b \in Bodies}
    \cup
    {MkResponse(s, <<>>, c, <<>>) : s \in {401, 404}, c \in Optional(ContentTypeValues)}
    \cup
    {MkResponse(s, <<>>, <<CtJson>>, <<>>) : s \in {304, 403, 500}}
    \cup
    {MkResponse(401, <<a>>, <<>>, <<>>) : a \in AuthHeaderValues}
    \cup
    {MkResponse(403, <<HdrExample>>, <<>>, <<>>)}
    \cup
    {MkResponse(200, <<>>, <<CtText>>, <<"h", "i">>)}

\* the five public send operations
Methods ==
    {"send_async", "send_collection_async", "send_collection_of_primitive_async",
     "send_primitive_async", "send_no_response_content_async"}

\* response_type values of send_primitive_async; "uuid" is not a kind it knows
PrimitiveKinds == {"str", "int", "float", "bool", "datetime", "bytes", "uuid"}

\* the second argument of each send operation (parsable_factory or response_type)
Targets(m) ==
    CASE m = "send_primitive_async" -> PrimitiveKinds
      [] m = "send_collection_of_primitive_async" -> {"str"}
      [] m = "send_no_response_content_async" -> {"n/a"}
      [] OTHER -> {"ModelFactory"}

\* error_map: Dict[str, ParsableFactory]
ErrorMapKeys == {"404", "4XX", "5XX"}

FactoryOf(k) ==
    CASE k = "404" -> "F1"
      [] k = "4XX" -> "F2"
      [] OTHER -> "F3"

ErrorMaps == {[k \in D |-> FactoryOf(k)] : D \in SUBSET ErrorMapKeys}

\* values of the base_url setter
BaseUrls == {"", "https://graph.example"}

\* request_options: no ResponseHandlerOption, one whose response_handler is None,
\* one with a response handler
RESPONSE_HANDLER_OPTION_KEY == "ResponseHandlerOption"

RequestOptionBags ==
    {[k \in {} |-> "None"],
     [k \in {RESPONSE_HANDLER_OPTION_KEY} |-> "None"],
     [k \in {RESPONSE_HANDLER_OPTION_KEY} |-> "handler"]}

\* RequestInformation, or None (is_none)
MkRequestInfo(none, baseurl, opts) ==
    [is_none |-> none, path_parameters |-> [p \in {"baseurl"} |-> baseurl],
     request_options |-> opts]

NoneRequest == MkRequestInfo(TRUE, "", [k \in {} |-> "None"])

RequestInfos ==
    {MkRequestInfo(FALSE, "caller-supplied", o) : o \in RequestOptionBags}

MkCall(m, t, request, errors) ==
    [method |-> m, target |-> t, request_info |-> request, error_map |-> errors]

\* The calls the model makes: every send operation and target with every request,
\* without an error map and with {"404": F1, "4XX": F2}; send_async with every
\* error map; every send operation with None for a request.
Calls ==
    {MkCall(m, t, r, e) :
        m \in Methods, t \in UNION {Targets(x) : x \in Methods}, r \in RequestInfos,
        e \in {[k \in {} |-> FactoryOf(k)], [k \in {"404", "4XX"} |-> FactoryOf(k)]}}
    \cup
    {MkCall("send_async", "ModelFactory", MkRequestInfo(FALSE, "caller-supplied",
                                                        [k \in {} |-> "None"]), e) :
        e \in ErrorMaps}
    \cup
    {MkCall(m, t, NoneRequest, [k \in {} |-> FactoryOf(k)]) :
        m \in Methods, t \in UNION {Targets(x) : x \in Methods}}

\* the requests convert_to_native_async is called with (it does not look at the
\* request options)
ConvertRequests ==
    {NoneRequest, MkRequestInfo(FALSE, "caller-supplied", [k \in {} |-> "None"])}

\* the outcome of a call: what it returns or raises
MkResult(kind, what, status, headers, detail, content) ==
    [kind |-> kind, what |-> what, status |-> status, headers |-> headers,
     detail |-> detail, content |-> content]

Pending == MkResult("pending", "", 0, EmptyHeaders, "", <<>>)

Returns(what, detail, content) == MkResult("return", what, 0, EmptyHeaders, detail, content)

Raises(what, detail) == MkResult("raise", what, 0, EmptyHeaders, detail, <<>>)

---------------------------------------------------------------------------
(* Pure helpers of the adapter *)

\* Python truthiness of a str / dict / optional object
StrTruthy(v) == v # <<>>

DictTruthy(d) == DOMAIN d # {}

ObjectTruthy(request) == ~request.is_none

\* response.headers.get(name) is truthy: the header is present and not empty
HeaderTruthy(headers, name) == name \in DOMAIN headers /\ StrTruthy(headers[name])

\* str(n) of a natural number
Digits == <<"0", "1", "2", "3", "4", "5", "6", "7", "8", "9">>

RECURSIVE IntToStr(_)
IntToStr(n) ==
    IF n < 10 THEN Digits[n + 1] ELSE IntToStr(n \div 10) \o Digits[(n % 10) + 1]

\* get_response_content_type: <<>> stands for None (and for the empty string,
\* which the callers treat alike)
get_response_content_type(response) ==
    IF ~HeaderTruthy(response.headers, CONTENT_TYPE_HEADER)
    THEN <<>>
    ELSE Split(Casefold(response.headers[CONTENT_TYPE_HEADER]), <<";">>)[1]

\* start_tracing_span reads request_info.url_template: on None this is an
\* AttributeError
StartTracingSpanRaises(request) == request.is_none

\* faulty variant: a redirection counts as a success
is_success_IncludesRedirects(response) ==
    200 <= response.status_code /\ response.status_code <= 399

\* httpx.Response.is_success, as throw_failed_responses uses it
is_success(response) == 200 <= response.status_code /\ response.status_code <= 299

\* faulty variant: the no-content test looks for 205
_should_return_none_WrongStatus(response) == response.status_code = 205

_should_return_none(response) == response.status_code = 204

\* faulty variant: the response handler option is not looked up
get_response_handler_Ignored(request) == "None"

\* get_response_handler: the option's response_handler, "None" when there is none
get_response_handler(request) ==
    IF RESPONSE_HANDLER_OPTION_KEY \in DOMAIN request.request_options
    THEN request.request_options[RESPONSE_HANDLER_OPTION_KEY]
    ELSE "None"

\* additional_authentication_context of get_http_response_message
EmptyContext == [k \in {} |-> <<>>]

AuthenticationContext(c) ==
    IF StrTruthy(c) THEN [k \in {CLAIMS_KEY} |-> c] ELSE EmptyContext

\* the condition under which retry_cae_response_if_required looks at the challenge
CaeCondition(response, c) ==
    /\ response.status_code = 401
    /\ ~StrTruthy(c)
    /\ HeaderTruthy(response.headers, RESPONSE_AUTH_HEADER)

\* auth_header_value.casefold().startswith(BEARER_AUTHENTICATION_SCHEME.casefold())
IsBearerChallenge(auth_header_value) ==
    StartsWith(Casefold(auth_header_value), Casefold(BEARER_AUTHENTICATION_SCHEME))

\* faulty variant: a Bearer challenge without claims is passed on silently
CaeDecision_SilentPassThrough(response, c) ==
    IF CaeCondition(response, c)
       /\ IsBearerChallenge(response.headers[RESPONSE_AUTH_HEADER])
       /\ ReSearchMatches(response.headers[RESPONSE_AUTH_HEADER])
    THEN "retry"
    ELSE "return"

\* faulty variant: a 401 without the header is a parse failure
CaeDecision_MissingHeaderIsError(response, c) ==
    IF CaeCondition(response, c)
    THEN IF IsBearerChallenge(response.headers[RESPONSE_AUTH_HEADER])
         THEN IF ~ReSearchMatches(response.headers[RESPONSE_AUTH_HEADER])
              THEN "ValueError"
              ELSE "retry"
         ELSE "return"
    ELSE IF response.status_code = 401 /\ ~StrTruthy(c) THEN "ValueError" ELSE "return"

\* what retry_cae_response_if_required does with a response
CaeDecision(response, c) ==
    IF CaeCondition(response, c)
    THEN IF IsBearerChallenge(response.headers[RESPONSE_AUTH_HEADER])
         THEN IF ~ReSearchMatches(response.headers[RESPONSE_AUTH_HEADER])
              THEN "ValueError"
              ELSE "retry"
         ELSE "return"
    ELSE "return"

\* throw_failed_responses: the second "no error class is registered" test
NoErrorClassRegistered(code, errors) ==
    /\ IntToStr(code) \notin DOMAIN errors
    /\ \/ (400 <= code /\ code < 500 /\ "4XX" \notin DOMAIN errors)
       \/ (500 <= code /\ code < 600 /\ "5XX" \notin DOMAIN errors)

\* faulty variant: the class wildcard is looked up before the exact code
ErrorClass_WildcardFirst(code, errors) ==
    IF 400 <= code /\ code < 500 /\ "4XX" \in DOMAIN errors THEN errors["4XX"]
    ELSE IF 500 <= code /\ code < 600 /\ "5XX" \in DOMAIN errors THEN errors["5XX"]
    ELSE IF IntToStr(code) \in DOMAIN errors THEN errors[IntToStr(code)]
    ELSE "None"

\* throw_failed_responses: error_class
ErrorClass(code, errors) ==
    IF IntToStr(code) \in DOMAIN errors THEN errors[IntToStr(code)]
    ELSE IF 400 <= code /\ code < 500 THEN errors["4XX"]
    ELSE IF 500 <= code /\ code < 600 THEN errors["5XX"]
    ELSE "None"

\* faulty variant: the APIError does not get the headers of the response
ApiError_WithoutHeaders(response, detail) ==
    MkResult("raise", "APIError", response.status_code, EmptyHeaders, detail, <<>>)

\* the APIError raised for `response`
ApiError(response, detail) ==
    MkResult("raise", "APIError", response.status_code, response.headers, detail, <<>>)

\* the APIError that root_node.get_object_value(error_class) materializes: its
\* status code and headers are those of a fresh APIError (None)
ErrorObject(cls) == MkResult("raise", "APIError", 0, EmptyHeaders, cls, <<>>)

\* faulty variant: the materialized error is raised as the factory made it
StampError_NotStamped(error, response) == error

\* error.response_headers = response_headers;
\* error.response_status_code = response_status_code
StampError(error, response) ==
    [error EXCEPT !.status = response.status_code, !.headers = response.headers]

NO_ERROR_CLASS_REGISTERED == "no error class is registered for this code"

UNEXPECTED_ERROR_TYPE == "Unexpected error type"

\* outcomes of the collaborators
FactoryOutcomes == {"node", "None", "raise"}

NodeOutcomes == {"value", "None", "raise"}

ErrorObjectOutcomes == {"APIError", "other", "raise"}

\* faulty variant: the parse node factory is asked whatever the content type is
GetRootParseNode_NoContentTypeCheck(response, outcome) == outcome

\* get_root_parse_node: the parse node factory is asked only for a response with
\* a content type; `outcome` is what the factory then does
GetRootParseNode(response, outcome) ==
    IF ~StrTruthy(get_response_content_type(response))
    THEN "DeserializationError"
    ELSE outcome

FactoryInvocations(response) ==
    IF StrTruthy(get_response_content_type(response)) THEN 1 ELSE 0

\* entries of the log of events: what get_root_parse_node gave, what
\* root_node.get_object_value(error_class) gave, what root_node.get_*_value gave
RootNodeEvent(root) == "root_node:" \o root

ErrorObjectEvent(eo) == "error_object:" \o eo

ValueEvent(vo) == "value:" \o vo

\* tracing spans: name, parent (0: started without a parent context), ended
StartSpan(sp, name, parent) == Append(sp, [name |-> name, parent |-> parent, ended |-> FALSE])

EndSpan(sp, i) == [sp EXCEPT ![i].ended = TRUE]

\* the span get_root_parse_node starts and always ends
RootParseNodeSpan(sp, parent) ==
    EndSpan(StartSpan(sp, "get_root_parse_node", parent), Len(sp) + 1)

---------------------------------------------------------------------------
VARIABLES
    base_url,            \* adapter._base_url
    pc,                  \* where the call in progress is
    method,              \* the send operation called
    request_info,        \* its request_info argument
    target,              \* its parsable_factory / response_type argument
    error_map,           \* its error_map argument
    claims,              \* claims of the current get_http_response_message
    resp,                \* the response of the current attempt
    spans,               \* the spans started during the call
    parent_span,         \* the send operation's parent_span (index in spans)
    attempt_span,        \* parent_span of the current get_http_response_message
    get_http_resp_span,  \* its _get_http_resp_span
    auth_log,            \* the contexts authenticate_request was called with
    requests,            \* the native requests built
    sends,               \* number of http_client.send calls
    responses,           \* the responses received
    grpn_calls,          \* number of get_root_parse_node calls
    factory_calls,       \* number of _parse_node_factory.get_root_parse_node calls
    failure_resolution,  \* the responses throw_failed_responses was called with
    error_class,         \* the error_class it selected ("" before)
    handled,             \* the responses the response handler was called with
    checked_204,         \* _should_return_none was called
    events,              \* what the call has done so far, in order
    result,              \* what the call returned or raised
    suspended,           \* the locals of the other call on this adapter, which
                         \* is not running
    turn                 \* which of the two calls the variables above belong to

args == <<method, request_info, target, error_map>>

attempt == <<claims, resp, attempt_span, get_http_resp_span>>

observed ==
    <<auth_log, requests, sends, responses, grpn_calls, factory_calls,
      failure_resolution, error_class, handled, checked_204>>

\* the event loop: the call that is suspended, the call that runs
scheduler == <<suspended, turn>>

vars ==
    <<base_url, pc, args, attempt, spans, parent_span, observed, events, result, scheduler>>

\* the locals of the running call: the arguments and local variables of its
\* coroutines, and what has been observed of it
CallLocals ==
    [pc |-> pc, method |-> method, request_info |-> request_info, target |-> target,
     error_map |-> error_map, claims |-> claims, resp |-> resp, spans |-> spans,
     parent_span |-> parent_span, attempt_span |-> attempt_span,
     get_http_resp_span |-> get_http_resp_span, auth_log |-> auth_log,
     requests |-> requests, sends |-> sends, responses |-> responses,
     grpn_calls |-> grpn_calls, factory_calls |-> factory_calls,
     failure_resolution |-> failure_resolution, error_class |-> error_class,
     handled |-> handled, checked_204 |-> checked_204, events |-> events,
     result |-> result]

\* the locals of a call that has not started
IdleLocals ==
    [pc |-> "idle", method |-> "none", request_info |-> NoneRequest, target |-> "n/a",
     error_map |-> [k \in {} |-> "None"], claims |-> <<>>, resp |-> NoResponse,
     spans |-> <<>>, parent_span |-> 0, attempt_span |-> 0, get_http_resp_span |-> 0,
     auth_log |-> <<>>, requests |-> <<>>, sends |-> 0, responses |-> <<>>,
     grpn_calls |-> 0, factory_calls |-> 0, failure_resolution |-> <<>>,
     error_class |-> "", handled |-> <<>>, checked_204 |-> FALSE, events |-> <<>>,
     result |-> Pending]

Idle ==
    /\ pc = "idle"
    /\ method = "none"
    /\ request_info = NoneRequest
    /\ target = "n/a"
    /\ error_map = [k \in {} |-> "None"]
    /\ claims = <<>>
    /\ resp = NoResponse
    /\ spans = <<>>
    /\ parent_span = 0
    /\ attempt_span = 0
    /\ get_http_resp_span = 0
    /\ auth_log = <<>>
    /\ requests = <<>>
    /\ sends = 0
    /\ responses = <<>>
    /\ grpn_calls = 0
    /\ factory_calls = 0
    /\ failure_resolution = <<>>
    /\ error_class = ""
    /\ handled = <<>>
    /\ checked_204 = FALSE
    /\ events = <<>>
    /\ result = Pending

\* __init__: the base url is empty, no call is in progress
Init ==
    /\ base_url = ""
    /\ Idle
    /\ suspended = IdleLocals
    /\ turn = 1

\* the base_url setter; callers configure the adapter between calls
SetBaseUrl ==
    /\ pc = "idle"
    /\ suspended.pc = "idle"
    /\ \E value \in BaseUrls :
          base_url' = IF value # "" THEN value ELSE base_url
    /\ UNCHANGED <<pc, args, attempt, spans, parent_span, observed, events, result>>
    /\ UNCHANGED scheduler

\* the call ends: the finally clause of the send operation ends parent_span
Finish(sp, r) ==
    /\ spans' = EndSpan(sp, parent_span)
    /\ result' = r
    /\ pc' = "done"

\* get_http_response_message up to its await of authenticate_request
BeginGetHttpResponseMessage(sp, request, parent, c) ==
    /\ spans' = StartSpan(sp, "get_http_response_message", parent)
    /\ get_http_resp_span' = Len(sp) + 1
    /\ attempt_span' = parent
    /\ request_info' = [request EXCEPT !.path_parameters["baseurl"] = base_url]
    /\ claims' = c
    /\ pc' = "authenticate"

\* A send operation is called: start_tracing_span, the null check, then
\* get_http_response_message up to authenticate_request
SendCall ==
    /\ pc = "idle"
    /\ \E call \in Calls :
       LET m == call.method
           request == call.request_info
       IN  /\ call.target \in Targets(m)
          /\ method' = m
          /\ target' = call.target
          /\ error_map' = call.error_map
          /\ IF StartTracingSpanRaises(request)
             THEN /\ result' = Raises("AttributeError", "url_template")
                  /\ pc' = "done"
                  /\ request_info' = request
                  /\ UNCHANGED <<spans, parent_span, claims, attempt_span, get_http_resp_span>>
             ELSE LET sp == StartSpan(spans, m, 0)
                  IN  /\ parent_span' = Len(sp)
                      /\ IF ~ObjectTruthy(request)
                         THEN /\ spans' = EndSpan(sp, Len(sp))
                              /\ result' = Raises("RequestError", "Request info cannot be null")
                              /\ pc' = "done"
                              /\ request_info' = request
                              /\ UNCHANGED <<claims, attempt_span, get_http_resp_span>>
                         ELSE /\ BeginGetHttpResponseMessage(sp, request, Len(sp), <<>>)
                              /\ UNCHANGED result
    /\ UNCHANGED <<base_url, resp, observed, events>>
    /\ UNCHANGED scheduler

\* faulty variant: a failure of authenticate_request is wrapped in an APIError
AuthenticateRequest_WrapsFailure ==
    /\ pc = "authenticate"
    /\ auth_log' = Append(auth_log, AuthenticationContext(claims))
    /\ \E ok \in BOOLEAN :
          IF ok
          THEN /\ spans' = EndSpan(StartSpan(spans, "get_request_from_request_information",
                                             get_http_resp_span), Len(spans) + 1)
               /\ requests' = Append(requests,
                                     [baseurl |-> request_info.path_parameters["baseurl"]])
               /\ events' = events \o <<"authenticated", "request_built">>
               /\ pc' = "send"
               /\ UNCHANGED result
          ELSE /\ Finish(spans, ApiError(resp, "AuthenticationFailure"))
               /\ events' = Append(events, "authentication_failed")
               /\ UNCHANGED requests
    /\ UNCHANGED <<base_url, args, attempt, parent_span, sends, responses, grpn_calls,
                   factory_calls, failure_resolution, error_class, handled, checked_204>>
    /\ UNCHANGED scheduler

\* authenticate_request returns or raises; then get_request_from_request_information
\* builds the native request
AuthenticateRequest ==
    /\ pc = "authenticate"
    /\ auth_log' = Append(auth_log, AuthenticationContext(claims))
    /\ \E ok \in BOOLEAN :
          IF ok
          THEN /\ spans' = EndSpan(StartSpan(spans, "get_request_from_request_information",
                                             get_http_resp_span), Len(spans) + 1)
               /\ requests' = Append(requests,
                                     [baseurl |-> request_info.path_parameters["baseurl"]])
               /\ events' = events \o <<"authenticated", "request_built">>
               /\ pc' = "send"
               /\ UNCHANGED result
          ELSE /\ Finish(spans, Raises("AuthenticationFailure", ""))
               /\ events' = Append(events, "authentication_failed")
               /\ UNCHANGED requests
    /\ UNCHANGED <<base_url, args, attempt, parent_span, sends, responses, grpn_calls,
                   factory_calls, failure_resolution, error_class, handled, checked_204>>
    /\ UNCHANGED scheduler

\* convert_to_native_async is called: start_tracing_span, the None check, then
\* its await of authenticate_request; the request's path parameters are left as
\* the caller gave them
ConvertToNativeAsync ==
    /\ pc = "idle"
    /\ \E request \in ConvertRequests :
          /\ method' = "convert_to_native_async"
          /\ request_info' = request
          /\ IF StartTracingSpanRaises(request)
             THEN /\ result' = Raises("AttributeError", "url_template")
                  /\ pc' = "done"
                  /\ UNCHANGED <<spans, parent_span>>
             ELSE LET sp == StartSpan(spans, "convert_to_native_async", 0)
                  IN  /\ parent_span' = Len(sp)
                      /\ IF request.is_none
                         THEN /\ spans' = EndSpan(sp, Len(sp))
                              /\ result' = Raises("ValueError",
                                                  "request information must be provided")
                              /\ pc' = "done"
                         ELSE /\ spans' = sp
                              /\ pc' = "convert_authenticate"
                              /\ UNCHANGED result
    /\ UNCHANGED <<base_url, target, error_map, attempt, observed, events>>
    /\ UNCHANGED scheduler

\* convert_to_native_async: authenticate_request returns or raises; then
\* get_request_from_request_information builds the native request, which is
\* returned
ConvertAuthenticate ==
    /\ pc = "convert_authenticate"
    /\ auth_log' = Append(auth_log, EmptyContext)
    /\ \E ok \in BOOLEAN :
          IF ok
          THEN /\ Finish(EndSpan(StartSpan(spans, "get_request_from_request_information",
                                            parent_span), Len(spans) + 1),
                         Returns("request", request_info.path_parameters["baseurl"], <<>>))
               /\ requests' = Append(requests,
                                     [baseurl |-> request_info.path_parameters["baseurl"]])
               /\ events' = events \o <<"authenticated", "request_built">>
          ELSE /\ Finish(spans, Raises("AuthenticationFailure", ""))
               /\ events' = Append(events, "authentication_failed")
               /\ UNCHANGED requests
    /\ UNCHANGED <<base_url, args, attempt, parent_span, sends, responses, grpn_calls,
                   factory_calls, failure_resolution, error_class, handled, checked_204>>
    /\ UNCHANGED scheduler

\* http_client.send returns a response or raises
HttpClientSend ==
    /\ pc = "send"
    /\ sends < MaxDispatch
    /\ sends' = sends + 1
    /\ \/ /\ Finish(spans, Raises("TransportFailure", ""))
          /\ events' = Append(events, "transport_failed")
          /\ UNCHANGED <<resp, responses>>
       \/ \E r \in Responses :
             /\ resp' = r
             /\ responses' = Append(responses, r)
             /\ spans' = EndSpan(spans, get_http_resp_span)
             /\ events' = Append(events, "response_received")
             /\ pc' = "retry_cae"
             /\ UNCHANGED result
    /\ UNCHANGED <<base_url, args, claims, attempt_span, get_http_resp_span, parent_span,
                   auth_log, requests, grpn_calls, factory_calls, failure_resolution,
                   error_class, handled, checked_204>>
    /\ UNCHANGED scheduler

\* retry_cae_response_if_required: return the response, raise, or call
\* get_http_response_message again with the claims of the challenge
RetryCaeResponseIfRequired ==
    /\ pc = "retry_cae"
    /\ LET sp == StartSpan(spans, "retry_cae_response_if_required", 0)
           decision == CaeDecision(resp, claims)
       IN  CASE decision = "ValueError" ->
                  /\ Finish(sp, Raises("ValueError", "Unable to parse claims from response"))
                  /\ UNCHANGED <<request_info, claims, attempt_span, get_http_resp_span>>
             [] decision = "retry" ->
                  /\ BeginGetHttpResponseMessage(
                        sp, request_info, Len(sp),
                        ResponseClaims(resp.headers[RESPONSE_AUTH_HEADER]))
                  /\ UNCHANGED result
             [] OTHER ->
                  /\ spans' = sp
                  /\ pc' = "get_response_handler"
                  /\ UNCHANGED <<request_info, claims, attempt_span, get_http_resp_span, result>>
    /\ events' = Append(events, "response_evaluated")
    /\ UNCHANGED <<base_url, method, target, error_map, resp, parent_span, observed>>
    /\ UNCHANGED scheduler

\* faulty variant: without a response handler the response is deserialized at once
GetResponseHandler_SkipsFailureResolution ==
    /\ pc = "get_response_handler"
    /\ pc' = IF get_response_handler(request_info) # "None"
             THEN "handle_response"
             ELSE "deserialize"
    /\ UNCHANGED <<base_url, args, attempt, spans, parent_span, observed, events, result>>
    /\ UNCHANGED scheduler

\* back in the send operation: the response handler, if any, takes the response
GetResponseHandler ==
    /\ pc = "get_response_handler"
    /\ pc' = IF get_response_handler(request_info) # "None"
             THEN "handle_response"
             ELSE "throw_failed_responses"
    /\ UNCHANGED <<base_url, args, attempt, spans, parent_span, observed, events, result>>
    /\ UNCHANGED scheduler

\* handle_response_async returns its result or raises
HandleResponse ==
    /\ pc = "handle_response"
    /\ handled' = Append(handled, resp)
    /\ events' = Append(events, "response_handled")
    /\ \E ok \in BOOLEAN :
          Finish(spans,
                 IF ok
                 THEN MkResult("return", "handler_result", resp.status_code, resp.headers,
                               "", resp.content)
                 ELSE Raises("HandlerFailure", ""))
    /\ UNCHANGED <<base_url, args, attempt, parent_span, auth_log, requests, sends,
                   responses, grpn_calls, factory_calls, failure_resolution, error_class,
                   checked_204>>
    /\ UNCHANGED scheduler

\* throw_failed_responses
ThrowFailedResponses ==
    /\ pc = "throw_failed_responses"
    /\ failure_resolution' = Append(failure_resolution, resp)
    /\ IF is_success(resp)
       THEN /\ pc' = "deserialize"
            /\ events' = Append(events, "failure_resolution")
            /\ UNCHANGED <<spans, result, error_class, grpn_calls, factory_calls>>
       ELSE LET sp1 == StartSpan(spans, "throw_failed_responses", parent_span)
                tf == Len(sp1)
            IN  IF ~DictTruthy(error_map)
                   \/ NoErrorClassRegistered(resp.status_code, error_map)
                THEN /\ Finish(EndSpan(sp1, tf), ApiError(resp, NO_ERROR_CLASS_REGISTERED))
                     /\ events' = Append(events, "failure_resolution")
                     /\ UNCHANGED <<error_class, grpn_calls, factory_calls>>
                ELSE \E fo \in FactoryOutcomes, eo \in ErrorObjectOutcomes :
                     LET cls == ErrorClass(resp.status_code, error_map)
                         root == GetRootParseNode(resp, fo)
                         sp2 == RootParseNodeSpan(sp1, tf)
                         sp3 == StartSpan(sp2, "get_object_value", tf)
                     IN  /\ error_class' = cls
                         /\ grpn_calls' = grpn_calls + 1
                         /\ factory_calls' = factory_calls + FactoryInvocations(resp)
                         /\ events' = events \o <<"failure_resolution", RootNodeEvent(root)>>
                                          \o (IF root = "node"
                                              THEN <<ErrorObjectEvent(eo)>>
                                              ELSE <<>>)
                         /\ CASE root = "DeserializationError" ->
                                   Finish(EndSpan(sp2, tf),
                                          Raises("DeserializationError",
                                                 "No response content type found"))
                              [] root = "raise" ->
                                   Finish(EndSpan(sp2, tf), Raises("ParseFailure", ""))
                              [] root = "None" ->
                                   Finish(EndSpan(sp3, tf),
                                          Raises("AttributeError", "get_object_value"))
                              [] OTHER ->
                                   CASE eo = "raise" ->
                                          Finish(EndSpan(sp3, tf), Raises("ParseFailure", ""))
                                     [] eo = "APIError" ->
                                          Finish(EndSpan(EndSpan(sp3, Len(sp3)), tf),
                                                 StampError(ErrorObject(cls), resp))
                                     [] OTHER ->
                                          Finish(EndSpan(EndSpan(sp3, Len(sp3)), tf),
                                                 ApiError(resp, UNEXPECTED_ERROR_TYPE))
    /\ UNCHANGED <<base_url, args, attempt, parent_span, auth_log, requests, sends,
                   responses, handled, checked_204>>
    /\ UNCHANGED scheduler

\* what the deserializing actions below leave alone
DeserializeFrame ==
    UNCHANGED <<base_url, args, attempt, parent_span, auth_log, requests, sends,
                responses, failure_resolution, error_class, handled, scheduler>>

\* send_async after throw_failed_responses
DeserializeObject ==
    /\ pc = "deserialize"
    /\ method = "send_async"
    /\ checked_204' = TRUE
    /\ IF _should_return_none(resp)
       THEN /\ Finish(spans, Returns("None", "", <<>>))
            /\ events' = Append(events, "should_return_none")
            /\ UNCHANGED <<grpn_calls, factory_calls>>
       ELSE \E fo \in FactoryOutcomes, vo \in NodeOutcomes :
            LET root == GetRootParseNode(resp, fo)
                sp1 == RootParseNodeSpan(spans, parent_span)
                sp2 == StartSpan(sp1, "get_object_value", parent_span)
            IN  /\ grpn_calls' = grpn_calls + 1
                /\ factory_calls' = factory_calls + FactoryInvocations(resp)
                /\ events' = events \o <<"should_return_none", RootNodeEvent(root)>>
                                 \o (IF root = "node" THEN <<ValueEvent(vo)>> ELSE <<>>)
                /\ CASE root = "DeserializationError" ->
                          Finish(sp1, Raises("DeserializationError",
                                             "No response content type found"))
                     [] root = "raise" -> Finish(sp1, Raises("ParseFailure", ""))
                     [] root = "None" -> Finish(sp1, Returns("None", "", <<>>))
                     [] OTHER ->
                          CASE vo = "raise" -> Finish(sp2, Raises("ParseFailure", ""))
                            [] vo = "None" ->
                                 Finish(EndSpan(sp2, Len(sp2)), Returns("None", "", <<>>))
                            [] OTHER ->
                                 Finish(EndSpan(sp2, Len(sp2)), Returns("object", target, <<>>))
    /\ DeserializeFrame

\* send_collection_async after throw_failed_responses
DeserializeCollection ==
    /\ pc = "deserialize"
    /\ method = "send_collection_async"
    /\ checked_204' = TRUE
    /\ IF _should_return_none(resp)
       THEN /\ Finish(spans, Returns("None", "", <<>>))
            /\ events' = Append(events, "should_return_none")
            /\ UNCHANGED <<grpn_calls, factory_calls>>
       ELSE \E fo \in FactoryOutcomes, vo \in NodeOutcomes :
            LET root == GetRootParseNode(resp, fo)
                sp1 == StartSpan(spans, "get_collection_of_object_values", parent_span)
                ds == Len(sp1)
                sp2 == RootParseNodeSpan(sp1, parent_span)
            IN  /\ grpn_calls' = grpn_calls + 1
                /\ factory_calls' = factory_calls + FactoryInvocations(resp)
                /\ events' = events \o <<"should_return_none", RootNodeEvent(root)>>
                                 \o (IF root = "node" THEN <<ValueEvent(vo)>> ELSE <<>>)
                /\ CASE root = "DeserializationError" ->
                          Finish(sp2, Raises("DeserializationError",
                                             "No response content type found"))
                     [] root = "raise" -> Finish(sp2, Raises("ParseFailure", ""))
                     [] root = "None" ->
                          Finish(sp2, Raises("AttributeError",
                                             "get_collection_of_object_values"))
                     [] OTHER ->
                          CASE vo = "raise" -> Finish(sp2, Raises("ParseFailure", ""))
                            [] vo = "None" -> Finish(EndSpan(sp2, ds), Returns("None", "", <<>>))
                            [] OTHER ->
                                 Finish(EndSpan(sp2, ds), Returns("collection", target, <<>>))
    /\ DeserializeFrame

\* send_collection_of_primitive_async after throw_failed_responses: it calls
\* get_root_parse_node before and after starting its deserialization span
DeserializeCollectionOfPrimitive ==
    /\ pc = "deserialize"
    /\ method = "send_collection_of_primitive_async"
    /\ checked_204' = TRUE
    /\ IF _should_return_none(resp)
       THEN /\ Finish(spans, Returns("None", "", <<>>))
            /\ events' = Append(events, "should_return_none")
            /\ UNCHANGED <<grpn_calls, factory_calls>>
       ELSE \E fo1 \in FactoryOutcomes, fo2 \in FactoryOutcomes, vo \in NodeOutcomes :
            LET root1 == GetRootParseNode(resp, fo1)
                root2 == GetRootParseNode(resp, fo2)
                sp1 == RootParseNodeSpan(spans, parent_span)
                sp2 == StartSpan(sp1, "get_collection_of_primitive_values", parent_span)
                ds == Len(sp2)
                sp3 == RootParseNodeSpan(sp2, parent_span)
            IN  IF root1 \in {"DeserializationError", "raise"}
                THEN /\ grpn_calls' = grpn_calls + 1
                     /\ factory_calls' = factory_calls + FactoryInvocations(resp)
                     /\ events' = events \o <<"should_return_none", RootNodeEvent(root1)>>
                     /\ Finish(sp1,
                               IF root1 = "raise"
                               THEN Raises("ParseFailure", "")
                               ELSE Raises("DeserializationError",
                                           "No response content type found"))
                ELSE /\ grpn_calls' = grpn_calls + 2
                     /\ factory_calls' = factory_calls + 2 * FactoryInvocations(resp)
                     /\ events' = events \o <<"should_return_none", RootNodeEvent(root1),
                                              RootNodeEvent(root2)>>
                                      \o (IF root2 = "node" THEN <<ValueEvent(vo)>> ELSE <<>>)
                     /\ CASE root2 = "DeserializationError" ->
                               Finish(sp3, Raises("DeserializationError",
                                                  "No response content type found"))
                          [] root2 = "raise" -> Finish(sp3, Raises("ParseFailure", ""))
                          [] root2 = "None" ->
                               Finish(sp3, Raises("AttributeError",
                                                  "get_collection_of_primitive_values"))
                          [] OTHER ->
                               CASE vo = "raise" -> Finish(sp3, Raises("ParseFailure", ""))
                                 [] vo = "None" ->
                                      Finish(EndSpan(sp3, ds), Returns("None", "", <<>>))
                                 [] OTHER ->
                                      Finish(EndSpan(sp3, ds),
                                             Returns("primitive_collection", target, <<>>))
    /\ DeserializeFrame

\* faulty variant: every kind is parsed
IsRawBytes_Never(response_type) == FALSE

\* send_primitive_async: response_type == "bytes"
IsRawBytes(response_type) == response_type = "bytes"

\* faulty variant: "uuid" has a get_<kind>_value branch too
ParsedKinds_WithUuid == {"str", "int", "float", "bool", "datetime", "uuid"}

\* the kinds send_primitive_async has a get_<kind>_value branch for
ParsedKinds == {"str", "int", "float", "bool", "datetime"}

\* send_primitive_async after throw_failed_responses
DeserializePrimitive ==
    /\ pc = "deserialize"
    /\ method = "send_primitive_async"
    /\ checked_204' = TRUE
    /\ IF _should_return_none(resp)
       THEN /\ Finish(spans, Returns("None", "", <<>>))
            /\ events' = Append(events, "should_return_none")
            /\ UNCHANGED <<grpn_calls, factory_calls>>
       ELSE IF IsRawBytes(target)
       THEN /\ Finish(spans, Returns("bytes", "", resp.content))
            /\ events' = Append(events, "should_return_none")
            /\ UNCHANGED <<grpn_calls, factory_calls>>
       ELSE \E fo \in FactoryOutcomes, vo \in NodeOutcomes :
            LET root == GetRootParseNode(resp, fo)
                sp1 == StartSpan(spans, "get_root_parse_node", parent_span)
                ds == Len(sp1)
                sp2 == RootParseNodeSpan(sp1, parent_span)
                unsupported ==
                    Finish(EndSpan(sp2, ds), Raises("TypeError", "Unable to deserialize type"))
            IN  /\ grpn_calls' = grpn_calls + 1
                /\ factory_calls' = factory_calls + FactoryInvocations(resp)
                /\ events' = events \o <<"should_return_none", RootNodeEvent(root)>>
                                 \o (IF root = "node" /\ target \in ParsedKinds
                                     THEN <<ValueEvent(vo)>>
                                     ELSE <<>>)
                /\ CASE root = "DeserializationError" ->
                          Finish(sp2, Raises("DeserializationError",
                                             "No response content type found"))
                     [] root = "raise" -> Finish(sp2, Raises("ParseFailure", ""))
                     [] target \notin ParsedKinds -> unsupported
                     [] root = "None" ->
                          Finish(sp2, Raises("AttributeError", "get_value"))
                     [] OTHER ->
                          CASE vo = "raise" -> Finish(sp2, Raises("ParseFailure", ""))
                            [] vo = "None" -> unsupported
                            [] OTHER ->
                                 Finish(EndSpan(sp2, ds), Returns("primitive", target, <<>>))
    /\ DeserializeFrame

\* send_no_response_content_async after throw_failed_responses
DeserializeNoContent ==
    /\ pc = "deserialize"
    /\ method = "send_no_response_content_async"
    /\ Finish(spans, Returns("None", "", <<>>))
    /\ UNCHANGED <<grpn_calls, factory_calls, checked_204, events>>
    /\ DeserializeFrame

\* the caller has the outcome; the adapter is ready for the next call
Return ==
    /\ pc = "done"
    /\ pc' = "idle"
    /\ method' = "none"
    /\ request_info' = NoneRequest
    /\ target' = "n/a"
    /\ error_map' = [k \in {} |-> "None"]
    /\ claims' = <<>>
    /\ resp' = NoResponse
    /\ spans' = <<>>
    /\ parent_span' = 0
    /\ attempt_span' = 0
    /\ get_http_resp_span' = 0
    /\ auth_log' = <<>>
    /\ requests' = <<>>
    /\ sends' = 0
    /\ responses' = <<>>
    /\ grpn_calls' = 0
    /\ factory_calls' = 0
    /\ failure_resolution' = <<>>
    /\ error_class' = ""
    /\ handled' = <<>>
    /\ checked_204' = FALSE
    /\ events' = <<>>
    /\ result' = Pending
    /\ UNCHANGED base_url
    /\ UNCHANGED scheduler

Next ==
    \/ SetBaseUrl
    \/ SendCall
    \/ ConvertToNativeAsync
    \/ ConvertAuthenticate
    \/ AuthenticateRequest
    \/ HttpClientSend
    \/ RetryCaeResponseIfRequired
    \/ GetResponseHandler
    \/ HandleResponse
    \/ ThrowFailedResponses
    \/ DeserializeObject
    \/ DeserializeCollection
    \/ DeserializeCollectionOfPrimitive
    \/ DeserializePrimitive
    \/ DeserializeNoContent
    \/ Return

Spec == Init /\ [][Next]_vars

---------------------------------------------------------------------------
(* Two calls on one adapter. The coroutine of a call keeps its arguments   *)
(* and local variables in its own frame; the event loop runs one call at   *)
(* a time and switches to the other one where the running call awaits a    *)
(* collaborator. The adapter's fields (base_url) are the only state the    *)
(* two calls share.                                                        *)

\* where a call is when the event loop can run the other one: it has not
\* started, it awaits the authentication provider, the http client or the
\* response handler, or it has ended
SuspensionPoints ==
    {"idle", "authenticate", "convert_authenticate", "send", "handle_response", "done"}

\* faulty variant: the claims are kept on the adapter, not in the frame of the
\* call, so that a switch does not change them
Switch_ClaimsOnAdapter ==
    /\ pc \in SuspensionPoints
    /\ suspended' = CallLocals
    /\ turn' = 3 - turn
    /\ pc' = suspended.pc
    /\ method' = suspended.method
    /\ request_info' = suspended.request_info
    /\ target' = suspended.target
    /\ error_map' = suspended.error_map
    /\ resp' = suspended.resp
    /\ spans' = suspended.spans
    /\ parent_span' = suspended.parent_span
    /\ attempt_span' = suspended.attempt_span
    /\ get_http_resp_span' = suspended.get_http_resp_span
    /\ auth_log' = suspended.auth_log
    /\ requests' = suspended.requests
    /\ sends' = suspended.sends
    /\ responses' = suspended.responses
    /\ grpn_calls' = suspended.grpn_calls
    /\ factory_calls' = suspended.factory_calls
    /\ failure_resolution' = suspended.failure_resolution
    /\ error_class' = suspended.error_class
    /\ handled' = suspended.handled
    /\ checked_204' = suspended.checked_204
    /\ events' = suspended.events
    /\ result' = suspended.result
    /\ UNCHANGED <<base_url, claims>>

\* the event loop suspends the running call and resumes the other one: every
\* argument and local variable of a call is in the frame of its coroutines
Switch ==
    /\ pc \in SuspensionPoints
    /\ suspended' = CallLocals
    /\ turn' = 3 - turn
    /\ pc' = suspended.pc
    /\ method' = suspended.method
    /\ request_info' = suspended.request_info
    /\ target' = suspended.target
    /\ error_map' = suspended.error_map
    /\ claims' = suspended.claims
    /\ resp' = suspended.resp
    /\ spans' = suspended.spans
    /\ parent_span' = suspended.parent_span
    /\ attempt_span' = suspended.attempt_span
    /\ get_http_resp_span' = suspended.get_http_resp_span
    /\ auth_log' = suspended.auth_log
    /\ requests' = suspended.requests
    /\ sends' = suspended.sends
    /\ responses' = suspended.responses
    /\ grpn_calls' = suspended.grpn_calls
    /\ factory_calls' = suspended.factory_calls
    /\ failure_resolution' = suspended.failure_resolution
    /\ error_class' = suspended.error_class
    /\ handled' = suspended.handled
    /\ checked_204' = suspended.checked_204
    /\ events' = suspended.events
    /\ result' = suspended.result
    /\ UNCHANGED base_url

\* what the two calls are called with: the first call is an object, an
\* object-collection or (with a response handler) a no-content call, the
\* second a primitive or primitive-collection call or convert_to_native_async
ConcurrentCalls(t) ==
    IF t = 1
    THEN {[method |-> "send_async", target |-> "ModelFactory", handler |-> "None"],
          [method |-> "send_collection_async", target |-> "ModelFactory", handler |-> "None"],
          [method |-> "send_no_response_content_async", target |-> "n/a",
           handler |-> "handler"]}
    ELSE {[method |-> "send_primitive_async", target |-> "str", handler |-> "None"],
          [method |-> "send_collection_of_primitive_async", target |-> "str",
           handler |-> "None"],
          [method |-> "send_no_response_content_async", target |-> "n/a",
           handler |-> "None"]}

\* the responses the http client gives the two calls
ConcurrentResponses ==
    {MkResponse(200, <<>>, <<CtJson>>, <<"{", "}">>),
     MkResponse(401, <<HdrPlain>>, <<>>, <<>>)}

ConcurrentSendCall ==
    /\ SendCall
    /\ ~request_info'.is_none
    /\ error_map' = [k \in {"404", "4XX"} |-> FactoryOf(k)]
    /\ [method |-> method', target |-> target',
        handler |-> get_response_handler(request_info')] \in ConcurrentCalls(turn)

ConcurrentConvertToNativeAsync ==
    /\ turn = 2
    /\ ConvertToNativeAsync
    /\ ~request_info'.is_none

\* the http client, the response handler, the parse node factory and the parse
\* nodes do not fail while two calls are followed, and the nodes yield values;
\* the authentication provider may fail
CollaboratorsSucceed ==
    /\ result'.what \notin {"TransportFailure", "HandlerFailure", "ParseFailure",
                            "AttributeError", "TypeError", "None"}
    /\ result'.detail # UNEXPECTED_ERROR_TYPE

ConcurrentHttpClientSend ==
    /\ HttpClientSend
    /\ CollaboratorsSucceed
    /\ pc' = "retry_cae" => resp' \in ConcurrentResponses

ConcurrentHandleResponse ==
    /\ HandleResponse
    /\ CollaboratorsSucceed

ConcurrentThrowFailedResponses ==
    /\ ThrowFailedResponses
    /\ CollaboratorsSucceed

ConcurrentDeserializeObject ==
    /\ DeserializeObject
    /\ CollaboratorsSucceed

ConcurrentDeserializeCollection ==
    /\ DeserializeCollection
    /\ CollaboratorsSucceed

ConcurrentDeserializeCollectionOfPrimitive ==
    /\ DeserializeCollectionOfPrimitive
    /\ CollaboratorsSucceed

ConcurrentDeserializePrimitive ==
    /\ DeserializePrimitive
    /\ CollaboratorsSucceed

ConcurrentNext ==
    \/ SetBaseUrl
    \/ ConcurrentSendCall
    \/ ConcurrentConvertToNativeAsync
    \/ ConvertAuthenticate
    \/ AuthenticateRequest
    \/ ConcurrentHttpClientSend
    \/ RetryCaeResponseIfRequired
    \/ GetResponseHandler
    \/ ConcurrentHandleResponse
    \/ ConcurrentThrowFailedResponses
    \/ ConcurrentDeserializeObject
    \/ ConcurrentDeserializeCollection
    \/ ConcurrentDeserializeCollectionOfPrimitive
    \/ ConcurrentDeserializePrimitive
    \/ DeserializeNoContent
    \/ Return
    \/ Switch

ConcurrentSpec == Init /\ [][ConcurrentNext]_vars

---------------------------------------------------------------------------
(* Vocabulary of the properties *)

Done == pc = "done"

\* the request carries a ResponseHandlerOption that holds a response handler
HasHandler ==
    /\ ~request_info.is_none
    /\ RESPONSE_HANDLER_OPTION_KEY \in DOMAIN request_info.request_options
    /\ request_info.request_options[RESPONSE_HANDLER_OPTION_KEY] = "handler"

\* the last response received
LastResponse == responses[Len(responses)]

\* the value of the header's claims component: the text between  claims="  and
\* the quote that closes it
ClaimsValue(h) ==
    LET rest == SubSeq(h, Find(h, ClaimsPatternPrefix) + Len(ClaimsPatternPrefix), Len(h))
    IN  SubSeq(rest, 1, Find(rest, <<Quote>>) - 1)

\* the header has a component  claims="<value>"  with a value of one character
\* or more
HasClaimsComponent(h) ==
    \E i \in 1..Len(h) :
        /\ OccursAt(h, ClaimsPatternPrefix, i)
        /\ \E j \in (i + Len(ClaimsPatternPrefix) + 1)..Len(h) : h[j] = Quote

\* the header names the Bearer scheme, in any case
HasBearerScheme(h) ==
    /\ Len(h) >= Len(BEARER_AUTHENTICATION_SCHEME)
    /\ \A i \in 1..Len(BEARER_AUTHENTICATION_SCHEME) :
          LowerChar(h[i]) = LowerChar(BEARER_AUTHENTICATION_SCHEME[i])

\* the first response is a 401 that carries a WWW-Authenticate header
FirstIsChallenged401 ==
    /\ responses # <<>>
    /\ responses[1].status_code = 401
    /\ RESPONSE_AUTH_HEADER \in DOMAIN responses[1].headers

FirstAuthHeader == responses[1].headers[RESPONSE_AUTH_HEADER]

\* a status outside [200, 300)
IsFailureStatus(code) == code < 200 \/ code >= 300

\* the error map has an entry for the status: its exact code, or the wildcard
\* of its class
Registered(code, errors) ==
    \/ IntToStr(code) \in DOMAIN errors
    \/ (400 <= code /\ code < 500 /\ "4XX" \in DOMAIN errors)
    \/ (500 <= code /\ code < 600 /\ "5XX" \in DOMAIN errors)

ClaimsParseError == Raises("ValueError", "Unable to parse claims from response")

---------------------------------------------------------------------------
(* The properties *)

\* C1: one send call invokes the transport at most twice and the authentication
\* provider at most twice, whatever the responses and their WWW-Authenticate
\* values are: a 401 on the retried attempt triggers no further retry.
C1_AtMostOneRetry ==
    /\ sends <= 2
    /\ Len(auth_log) <= 2

\* C2: when the first 401 carries a Bearer challenge with claims="<value>", the
\* authentication context of the retry is exactly {"claims": <value>}, <value>
\* being the full text between the quotes; for the header
\* Bearer realm="x", claims="eyAiY2xhaW1zIjogIngiIH0="  it is
\* {"claims": "eyAiY2xhaW1zIjogIngiIH0="}.
C2_RetryContextIsClaimsValue ==
    (/\ FirstIsChallenged401
     /\ HasBearerScheme(FirstAuthHeader)
     /\ HasClaimsComponent(FirstAuthHeader)
     /\ Len(auth_log) >= 2)
    => /\ auth_log[2] = [k \in {CLAIMS_KEY} |-> ClaimsValue(FirstAuthHeader)]
       /\ FirstAuthHeader = HdrExample
            => auth_log[2] = [k \in {CLAIMS_KEY} |-> ExampleClaims]

\* C3: when a CAE retry is performed the second response decides the outcome: it
\* is the one handed to the response handler or to failure resolution, and
\* nothing is dispatched after it, even when it is a 401 itself; without a retry
\* the first response is the one handed on.
C3_SecondResponseDecides ==
    LET deciding == IF Len(auth_log) >= 2 THEN 2 ELSE 1
    IN  /\ \A i \in 1..Len(handled) :
              Len(responses) >= deciding /\ handled[i] = responses[deciding]
        /\ \A i \in 1..Len(failure_resolution) :
              Len(responses) >= deciding /\ failure_resolution[i] = responses[deciding]
        /\ sends <= deciding

\* C4, as claimed: a first-attempt 401 whose WWW-Authenticate header is present
\* but is no Bearer challenge with a claims component (a Bearer header without
\* claims, or another scheme such as Basic) fails with the claims-parse error
\* and is never handed on.
C4_AnyOtherChallengeIsParseError ==
    (/\ FirstIsChallenged401
     /\ ~(HasBearerScheme(FirstAuthHeader) /\ HasClaimsComponent(FirstAuthHeader)))
    => \/ pc = "retry_cae"
       \/ (Done /\ result = ClaimsParseError)

\* C4, amended: a first-attempt 401 whose WWW-Authenticate header names the
\* Bearer scheme and has no claims component fails with the claims-parse error
\* and is never handed to the response handler or to failure resolution; a
\* header of another scheme is no error and no retry: the 401 is handed on.
C4_BearerWithoutClaimsIsParseError ==
    FirstIsChallenged401 =>
       /\ (HasBearerScheme(FirstAuthHeader) /\ ~HasClaimsComponent(FirstAuthHeader))
            => /\ pc = "retry_cae" \/ (Done /\ result = ClaimsParseError)
               /\ handled = <<>>
               /\ failure_resolution = <<>>
               /\ sends = 1
       /\ ~HasBearerScheme(FirstAuthHeader)
            => /\ result # ClaimsParseError
               /\ sends = 1
               /\ Len(auth_log) = 1
               /\ \A i \in 1..Len(handled) : handled[i] = responses[1]
               /\ \A i \in 1..Len(failure_resolution) : failure_resolution[i] = responses[1]
               /\ Done => handled # <<>> \/ failure_resolution # <<>>

C4_Witness ==
    /\ Done
    /\ FirstIsChallenged401
    /\ FirstAuthHeader = HdrNoClaims
    /\ result = ClaimsParseError

\* C5: a 401 without a WWW-Authenticate header causes no retry and no
\* claims-parse error: as the first response it leaves transport and
\* authentication invoked exactly once, and it is treated like any other non-2xx
\* response (handed to the response handler if there is one, to failure
\* resolution otherwise, which raises).
C5_PlainUnauthorizedIsOrdinaryFailure ==
    \A i \in 1..Len(responses) :
       (responses[i].status_code = 401
        /\ RESPONSE_AUTH_HEADER \notin DOMAIN responses[i].headers)
       => /\ Len(responses) = i
          /\ sends = i
          /\ Len(auth_log) = i
          /\ result # ClaimsParseError
          /\ pc \in {"retry_cae", "get_response_handler", "handle_response",
                     "throw_failed_responses", "done"}
          /\ (Done /\ HasHandler) => handled = <<responses[i]>>
          /\ (Done /\ ~HasHandler)
               => /\ failure_resolution = <<responses[i]>>
                  /\ result.kind = "raise"

C5_Witness ==
    /\ Done
    /\ ~HasHandler
    /\ Len(responses) = 1
    /\ responses[1].status_code = 401
    /\ RESPONSE_AUTH_HEADER \notin DOMAIN responses[1].headers
    /\ sends = 1
    /\ Len(auth_log) = 1
    /\ result = ApiError(responses[1], NO_ERROR_CLASS_REGISTERED)

\* C6: a send call whose request description is None fails with the
\* invalid-request error (RequestError "Request info cannot be null") and
\* nothing else, before the authentication provider or the transport is invoked.
C6_NullRequestIsInvalidRequest ==
    (Done /\ request_info.is_none)
    => /\ result = Raises("RequestError", "Request info cannot be null")
       /\ auth_log = <<>>
       /\ sends = 0

\* C7: with a response handler set, the call returns exactly the handler's
\* result for the (possibly retried) response; failure resolution, the 204
\* check and the parse node factory are never invoked, and no API error is
\* raised, also for a 500.
C7_HandlerBypassesResolution ==
    HasHandler =>
       /\ failure_resolution = <<>>
       /\ ~checked_204
       /\ grpn_calls = 0
       /\ factory_calls = 0
       /\ result.what # "APIError"
       /\ pc \notin {"throw_failed_responses", "deserialize"}
       /\ handled # <<>> => handled = <<LastResponse>>
       /\ (Done /\ result.kind = "return")
            => result = MkResult("return", "handler_result", LastResponse.status_code,
                                 LastResponse.headers, "", LastResponse.content)

C7_Witness ==
    /\ Done
    /\ HasHandler
    /\ responses # <<>>
    /\ LastResponse.status_code = 500
    /\ result.kind = "return"
    /\ result.what = "handler_result"
    /\ result.status = 500

\* C8: without a response handler, a final response of status 204 makes every
\* send operation return None without invoking the parse node factory, whatever
\* the error map, the body and the content type are.
C8_NoContentReturnsNone ==
    (/\ ~HasHandler
     /\ failure_resolution # <<>>
     /\ failure_resolution[1].status_code = 204)
    => /\ grpn_calls = 0
       /\ factory_calls = 0
       /\ pc \in {"deserialize", "done"}
       /\ Done => result = Returns("None", "", <<>>)

C8_Witness ==
    /\ Done
    /\ method = "send_async"
    /\ ~HasHandler
    /\ DictTruthy(error_map)
    /\ failure_resolution # <<>>
    /\ failure_resolution[1].status_code = 204
    /\ failure_resolution[1].content # <<>>
    /\ CONTENT_TYPE_HEADER \in DOMAIN failure_resolution[1].headers
    /\ result = Returns("None", "", <<>>)

\* C9: for a failed response with status s, failure resolution selects the
\* error map's entry for the exact code of s if there is one, otherwise the
\* entry "4XX" when 400 <= s < 500 or "5XX" when 500 <= s < 600 if there is one;
\* the wildcard of the other class is never selected.
C9_ErrorMapPrecedence ==
    (failure_resolution # <<>> /\ IsFailureStatus(failure_resolution[1].status_code))
    => LET s == failure_resolution[1].status_code
           exact == IntToStr(s)
       IN  /\ exact \in DOMAIN error_map => error_class = error_map[exact]
           /\ (exact \notin DOMAIN error_map /\ 400 <= s /\ s < 500
               /\ "4XX" \in DOMAIN error_map)
                => error_class = error_map["4XX"]
           /\ (exact \notin DOMAIN error_map /\ 500 <= s /\ s < 600
               /\ "5XX" \in DOMAIN error_map)
                => error_class = error_map["5XX"]
           /\ (exact \notin DOMAIN error_map /\ 400 <= s /\ s < 500
               /\ "5XX" \in DOMAIN error_map)
                => error_class # error_map["5XX"]
           /\ (exact \notin DOMAIN error_map /\ 500 <= s /\ s < 600
               /\ "4XX" \in DOMAIN error_map)
                => error_class # error_map["4XX"]

C9_Witness ==
    /\ Done
    /\ error_map = [k \in {"404", "4XX"} |-> FactoryOf(k)]
    /\ failure_resolution # <<>>
    /\ failure_resolution[1].status_code = 404
    /\ error_class = "F1"
    /\ result = ApiError(failure_resolution[1], "F1")

\* C10: for every response with a status outside [200, 300) and every error map
\* that registers neither the exact status nor the wildcard of its class,
\* failure resolution raises the generic API error with the status, the
\* response headers and the "no error class is registered" message, and invokes
\* neither the parse node factory nor an error factory.
C10_UnregisteredIsGenericError ==
    (/\ Done
     /\ failure_resolution # <<>>
     /\ IsFailureStatus(failure_resolution[1].status_code)
     /\ ~Registered(failure_resolution[1].status_code, error_map))
    => /\ result = ApiError(failure_resolution[1], NO_ERROR_CLASS_REGISTERED)
       /\ grpn_calls = 0
       /\ factory_calls = 0
       /\ error_class = ""

---------------------------------------------------------------------------
(* Vocabulary of the properties on the log of events *)

\* the call has done e
Happened(e) == \E i \in 1..Len(events) : events[i] = e

\* the response failure resolution was called with
Resolved == failure_resolution[1]

\* a successful response other than 204
IsContentStatus(code) == 200 <= code /\ code < 300 /\ code # 204

DeserializationErrorRaised ==
    Raises("DeserializationError", "No response content type found")

UnsupportedTypeError == Raises("TypeError", "Unable to deserialize type")

\* C11: for every status in [400, 600) and an empty (or absent) error map,
\* failure resolution raises the generic API error whose status code is the
\* status of the response and whose headers are the headers of the response,
\* without parsing the body.
C11_EmptyMapIsGenericError ==
    (/\ failure_resolution # <<>>
     /\ 400 <= Resolved.status_code
     /\ Resolved.status_code < 600
     /\ ~DictTruthy(error_map))
    => /\ Done
       /\ result.kind = "raise"
       /\ result.what = "APIError"
       /\ result.detail = NO_ERROR_CLASS_REGISTERED
       /\ result.status = Resolved.status_code
       /\ result.headers = Resolved.headers
       /\ grpn_calls = 0
       /\ factory_calls = 0
       /\ events[Len(events)] = "failure_resolution"

C11_Witness ==
    /\ Done
    /\ ~DictTruthy(error_map)
    /\ failure_resolution # <<>>
    /\ Resolved.status_code = 500
    /\ CONTENT_TYPE_HEADER \in DOMAIN Resolved.headers
    /\ result.what = "APIError"
    /\ result.status = 500
    /\ result.headers = Resolved.headers

\* C12: a response is a success exactly when its status is in [200, 300): for
\* such a response and every error map failure resolution returns without
\* raising, without looking into the error map and without parsing the body;
\* for every other status failure resolution raises.
C12_SuccessIffTwoHundreds ==
    failure_resolution # <<>> =>
       /\ (200 <= Resolved.status_code /\ Resolved.status_code < 300)
            => /\ error_class = ""
               /\ ~Happened(RootNodeEvent("node")) \/ Happened("should_return_none")
               /\ pc \in {"deserialize", "done"}
               /\ events[Len(events)] = "failure_resolution"
                    => /\ grpn_calls = 0
                       /\ factory_calls = 0
                       /\ \/ pc = "deserialize" /\ result = Pending
                          \/ /\ Done
                             /\ method = "send_no_response_content_async"
                             /\ result = Returns("None", "", <<>>)
       /\ ~(200 <= Resolved.status_code /\ Resolved.status_code < 300)
            => /\ Done
               /\ result.kind = "raise"
               /\ ~checked_204

C12_Witness ==
    /\ pc = "deserialize"
    /\ failure_resolution # <<>>
    /\ Resolved.status_code = 200
    /\ error_map = [k \in {"404", "4XX"} |-> FactoryOf(k)]
    /\ error_class = ""
    /\ grpn_calls = 0
    /\ result = Pending

\* C13, as claimed: when the error map has an entry for a failed response, the
\* error raised always carries the status code and the headers of the response.
C13_RegisteredErrorCarriesStatus ==
    (/\ Done
     /\ failure_resolution # <<>>
     /\ IsFailureStatus(Resolved.status_code)
     /\ Registered(Resolved.status_code, error_map))
    => /\ result.what = "APIError"
       /\ result.status = Resolved.status_code
       /\ result.headers = Resolved.headers

\* C13, amended: when the error map has an entry for a failed response and the
\* body is parsed into a node from which the entry's factory yields an object,
\* the error raised carries the status code and the headers of the response: an
\* APIError the factory yields is raised itself, its status code and headers
\* overwritten; for anything else a generic APIError with the status, the
\* headers and the "Unexpected error type" message is raised. When the body is
\* not parsed or no object is yielded, the failure of the parse is raised and it
\* carries neither.
C13_MaterializedErrorCarriesStatus ==
    (/\ Done
     /\ failure_resolution # <<>>
     /\ IsFailureStatus(Resolved.status_code)
     /\ Registered(Resolved.status_code, error_map))
    => /\ Happened(ErrorObjectEvent("APIError"))
            => result = MkResult("raise", "APIError", Resolved.status_code,
                                 Resolved.headers, error_class, <<>>)
       /\ Happened(ErrorObjectEvent("other"))
            => result = MkResult("raise", "APIError", Resolved.status_code,
                                 Resolved.headers, UNEXPECTED_ERROR_TYPE, <<>>)
       /\ ~(Happened(ErrorObjectEvent("APIError")) \/ Happened(ErrorObjectEvent("other")))
            => /\ result.kind = "raise"
               /\ result.what \in {"DeserializationError", "ParseFailure", "AttributeError"}
               /\ result.status = 0

C13_Witness ==
    /\ Done
    /\ failure_resolution # <<>>
    /\ Resolved.status_code = 404
    /\ error_class = "F1"
    /\ Happened(ErrorObjectEvent("APIError"))
    /\ result.what = "APIError"
    /\ result.detail = "F1"
    /\ result.status = 404
    /\ result.headers = Resolved.headers
    /\ result.headers # EmptyHeaders

\* C14: send_primitive_async with the kind "bytes", on a successful response
\* other than 204 and without a response handler, returns exactly the content of
\* the response and never invokes the parse node factory, whatever the content
\* type is and also when there is no content-type header.
C14_BytesAreRawBody ==
    (/\ Done
     /\ method = "send_primitive_async"
     /\ target = "bytes"
     /\ failure_resolution # <<>>
     /\ IsContentStatus(Resolved.status_code))
    => /\ result = Returns("bytes", "", Resolved.content)
       /\ grpn_calls = 0
       /\ factory_calls = 0

C14_Witness ==
    /\ Done
    /\ method = "send_primitive_async"
    /\ target = "bytes"
    /\ ~HasHandler
    /\ failure_resolution # <<>>
    /\ Resolved.status_code = 200
    /\ CONTENT_TYPE_HEADER \notin DOMAIN Resolved.headers
    /\ Resolved.content # <<>>
    /\ result = Returns("bytes", "", Resolved.content)
    /\ factory_calls = 0

\* C15: send_primitive_async with a kind that is none of str, int, float, bool,
\* datetime, bytes, on a successful response other than 204 whose content type
\* the parse node factory resolves and without a response handler, fails with
\* the unsupported-type error (TypeError "Unable to deserialize type") and
\* returns no value.
C15_UnknownKindIsUnsupportedType ==
    (/\ Done
     /\ method = "send_primitive_async"
     /\ target \notin {"str", "int", "float", "bool", "datetime", "bytes"}
     /\ failure_resolution # <<>>
     /\ IsContentStatus(Resolved.status_code)
     /\ Happened(RootNodeEvent("node")) \/ Happened(RootNodeEvent("None")))
    => /\ result = UnsupportedTypeError
       /\ ~Happened(ValueEvent("value"))

C15_Witness ==
    /\ Done
    /\ method = "send_primitive_async"
    /\ target = "uuid"
    /\ ~HasHandler
    /\ failure_resolution # <<>>
    /\ Resolved.status_code = 200
    /\ Happened(RootNodeEvent("node"))
    /\ result = UnsupportedTypeError

\* C16: whenever a body is to be parsed (the object, object-collection,
\* primitive-collection and non-bytes primitive operations on a successful
\* response other than 204; the error body when the error map has an entry for
\* the failed response) and the response has no content-type header, the call
\* fails with the DeserializationError and the parse node factory is not invoked.
C16_NoContentTypeIsDeserializationError ==
    (/\ Done
     /\ failure_resolution # <<>>
     /\ CONTENT_TYPE_HEADER \notin DOMAIN Resolved.headers
     /\ \/ /\ IsContentStatus(Resolved.status_code)
           /\ \/ method \in {"send_async", "send_collection_async",
                             "send_collection_of_primitive_async"}
              \/ method = "send_primitive_async" /\ target # "bytes"
        \/ /\ IsFailureStatus(Resolved.status_code)
           /\ Registered(Resolved.status_code, error_map))
    => /\ result = DeserializationErrorRaised
       /\ factory_calls = 0

C16_Witness ==
    /\ Done
    /\ failure_resolution # <<>>
    /\ Resolved.status_code = 404
    /\ CONTENT_TYPE_HEADER \notin DOMAIN Resolved.headers
    /\ error_class = "F1"
    /\ grpn_calls = 1
    /\ factory_calls = 0
    /\ result = DeserializationErrorRaised

\* C17: within one call the events are strictly ordered: the authentication of
\* an attempt completes before the dispatch of that attempt; a response is
\* evaluated before a retry starts; the retry's authentication and dispatch
\* complete before its response is evaluated; failure resolution runs before
\* any success-path deserialization; never is more than one authentication or
\* dispatch in flight.
C17_EventsAreOrdered ==
    /\ \A i \in 1..Len(events) :
          /\ events[i] \in {"response_received", "transport_failed"}
               => i > 2 /\ events[i - 1] = "request_built" /\ events[i - 2] = "authenticated"
          /\ events[i] = "request_built"
               => i > 1 /\ events[i - 1] = "authenticated"
          /\ events[i] \in {"authenticated", "authentication_failed"}
               => i = 1 \/ events[i - 1] = "response_evaluated"
          /\ events[i] = "response_evaluated"
               => i > 1 /\ events[i - 1] = "response_received"
          /\ events[i] \in {"failure_resolution", "response_handled"}
               => i > 1 /\ events[i - 1] = "response_evaluated"
          /\ events[i] = "should_return_none"
               => i > 1 /\ events[i - 1] = "failure_resolution"
    /\ pc = "authenticate" => events = <<>> \/ events[Len(events)] = "response_evaluated"
    /\ pc = "send" => events # <<>> /\ events[Len(events)] = "request_built"
    /\ pc = "deserialize" => events # <<>> /\ events[Len(events)] = "failure_resolution"
    /\ Len(responses) <= sends
    /\ sends <= Len(requests)
    /\ Len(requests) <= Len(auth_log)
    /\ Len(auth_log) <= Len(responses) + 1
    /\ (Done /\ result.kind = "return" /\ result.what \notin {"handler_result", "request"})
         => Happened("failure_resolution")

C17_Witness ==
    /\ Done
    /\ events = <<"authenticated", "request_built", "response_received", "response_evaluated",
                  "authenticated", "request_built", "response_received", "response_evaluated",
                  "failure_resolution", "should_return_none", RootNodeEvent("node"),
                  ValueEvent("value")>>
    /\ result.kind = "return"

\* C18: the context handed to the authentication provider is empty on the first
\* attempt of every send call; on a claims retry it has exactly one entry, the
\* key "claims" with the claims value extracted from the challenge; it never
\* has another key.
C18_ContextIsEmptyOrClaims ==
    method \in Methods =>
       \A i \in 1..Len(auth_log) :
          /\ DOMAIN auth_log[i] \subseteq {CLAIMS_KEY}
          /\ i = 1 => auth_log[i] = EmptyContext
          /\ i > 1
               => auth_log[i] =
                     [k \in {CLAIMS_KEY} |->
                        ResponseClaims(responses[i - 1].headers[RESPONSE_AUTH_HEADER])]

\* C19: when the authentication provider fails in an attempt (the first or a
\* retry) of a send operation, that failure reaches the caller as it is, the
\* transport is not invoked for the attempt, and authentication is not
\* attempted again.
C19_AuthenticationFailurePropagates ==
    (method \in Methods /\ Happened("authentication_failed"))
    => /\ Done
       /\ result = Raises("AuthenticationFailure", "")
       /\ events[Len(events)] = "authentication_failed"
       /\ sends = Len(auth_log) - 1
       /\ Len(requests) = Len(auth_log) - 1
       /\ Len(responses) = Len(auth_log) - 1
       /\ handled = <<>>
       /\ failure_resolution = <<>>

C19_Witness ==
    /\ Done
    /\ method = "send_collection_async"
    /\ Len(auth_log) = 2
    /\ sends = 1
    /\ events = <<"authenticated", "request_built", "response_received", "response_evaluated",
                  "authentication_failed">>
    /\ result = Raises("AuthenticationFailure", "")

\* C20: every native request the adapter builds, in each attempt of each send
\* operation and in convert_to_native_async, is built with the path parameter
\* baseurl set to the base url of the adapter, whatever the caller supplied.
C20_RequestsCarryBaseUrl ==
    \A i \in 1..Len(requests) : requests[i].baseurl = base_url

---------------------------------------------------------------------------
(* Two calls on one adapter; spans; the parses of a call *)

\* a step that the running call takes: the call that is suspended keeps its
\* locals, the step is one the call takes when it is alone on the adapter, and
\* the base url is written only while neither call is in progress
StepOfRunningCall ==
    /\ suspended' = suspended
    /\ Next \/ UNCHANGED vars
    /\ base_url' # base_url => pc = "idle" /\ suspended.pc = "idle"

\* a switch between the calls: each call finds its locals as it left them, and
\* the adapter is as it was
StepOfEventLoop ==
    /\ CallLocals' = suspended
    /\ suspended' = CallLocals
    /\ base_url' = base_url

\* C21: two send calls on one adapter, interleaved in any way and with no write
\* of base_url during the calls, do not interfere: neither call modifies a field
\* of the adapter, and every step changes one call only and is a step that call
\* takes when it runs alone, so that each call's result or error is the one it
\* has alone against the same responses.
C21_ConcurrentCallsDoNotInterfere ==
    /\ [](/\ turn \in {1, 2}
          /\ auth_log # <<>> => auth_log[1] = EmptyContext
          /\ suspended.auth_log # <<>> => suspended.auth_log[1] = EmptyContext
          /\ (method \in Methods /\ requests # <<>>)
               => requests[Len(requests)].baseurl = base_url
          /\ C17_EventsAreOrdered
          /\ C19_AuthenticationFailurePropagates)
    /\ [][IF turn' # turn THEN StepOfEventLoop ELSE StepOfRunningCall]_vars

C21_Witness ==
    /\ pc = "done"
    /\ suspended.pc = "done"
    /\ method = "send_async"
    /\ suspended.method = "send_primitive_async"
    /\ claims # <<>>
    /\ suspended.claims = <<>>
    /\ Len(responses) = 2
    /\ Len(suspended.responses) = 1
    /\ result = Returns("object", "ModelFactory", <<>>)
    /\ suspended.result = Returns("primitive", "str", <<>>)

\* C22: every span started during a send call (the parent span and the span of
\* every internal phase) has been ended when the call returns or raises, on
\* every exit path.
C22_AllSpansEnded ==
    (Done /\ method \in Methods)
    => \A i \in 1..Len(spans) : spans[i].ended

\* C23: a send call starts exactly one parent span (a root span, started
\* without a context); every other span started during the call, in the first
\* attempt and in a retry, is nested under that parent span.
C23_OneParentSpan ==
    method \in Methods =>
       \A i \in 1..Len(spans) :
          /\ spans[i].parent = 0 <=> i = 1
          /\ spans[i].parent < i

\* C24: send_primitive_async raises the unsupported-type error only for a kind
\* it does not know: for str, int, float, bool and datetime and every value the
\* parse node yields, None included, the call returns that value.
C24_RecognizedKindReturnsValue ==
    (/\ Done
     /\ method = "send_primitive_async"
     /\ target \in {"str", "int", "float", "bool", "datetime"})
    => /\ result # UnsupportedTypeError
       /\ Happened(ValueEvent("None")) => result = Returns("None", "", <<>>)
       /\ Happened(ValueEvent("value")) => result = Returns("primitive", target, <<>>)

\* C25: during one send call get_root_parse_node is called at most once, and
\* the parse node factory is invoked at most once, on the failure path or on
\* the success path and never on both.
C25_ParseAtMostOnce ==
    method \in Methods =>
       /\ grpn_calls <= 1
       /\ factory_calls <= 1

=============================================================================
